---- MODULE Spec2Model ----
(***************************************************************************)
(* The IPython controller application, IPython/kernel/scripts/             *)
(* ipcontrollerapp.py: resolution of the cluster directory, provisioning   *)
(* of the security and log directories, and assembly of the service        *)
(* hierarchy.                                                              *)
(*                                                                         *)
(* A path string is a sequence of tokens whose concatenation is the        *)
(* string: "/" is the separator, "~" a leading tilde, "$E" a reference to  *)
(* the environment variable E, anything else a name.  The empty string is  *)
(* the empty sequence.                                                     *)
(*                                                                         *)
(* A configuration layer (a Config object's keys that matter here) is a    *)
(* function from the dotted keys that are set to their values; a key that  *)
(* is not in the domain raises AttributeError when read.                   *)
(***************************************************************************)
EXTENDS Integers, Sequences, FiniteSets, TLC

VARIABLES
    argv,                 \* the command line as parsed (an input, never written)
    environ,              \* os.environ
    umask,                \* the process umask
    default_config,       \* self.default_config
    command_line_config,  \* self.command_line_config
    file_config,          \* self.file_config
    master_config,        \* self.master_config
    self,                 \* attributes set on the IPControllerApp instance
    fs,                   \* the filesystem entries seen or changed so far
    fs0,                  \* the same entries as they were when the process started
    probed,               \* paths find_cluster_dir tested with os.path.isdir
    syscalls,             \* the filesystem-changing calls made, in order
    pc,                   \* the step of the start-up sequence to run next
    exc,                  \* the exception that left a step, or "none"
    main_service,         \* the members of self.main_service, in order
    logging,              \* where log.startLogging sends output
    executed,             \* indexes of the import statements exec was called on
    log_msgs,             \* indexes of the statements logged as failed
    stmt,                 \* position of the for loop of import_statements
    started,              \* number of calls of main_service.startService
    reactor_running       \* reactor.run has been entered

vars == <<argv, environ, umask, default_config, command_line_config, file_config,
          master_config, self, fs, fs0, probed, syscalls, pc, exc, main_service,
          logging, executed, log_msgs, stmt, started, reactor_running>>

----------------------------------------------------------------------------
(* Bounds of the model *)

MaxStatements == 3

----------------------------------------------------------------------------
(* Permission bits *)

S_IRWXU == 448
S_IRWXUGO == 511

RECURSIVE AndNot(_, _, _)
\* m & ~u over the low `bits` bits
AndNot(m, u, bits) ==
    IF bits = 0 THEN 0
    ELSE (IF m % 2 = 1 /\ u % 2 = 0 THEN 1 ELSE 0) + 2 * AndNot(m \div 2, u \div 2, bits - 1)

\* the mode a directory gets from mkdir(path, mode) under umask u
CreateMode(mode, u) == AndNot(mode, u, 9)

\* process umasks: 0o022 and 0o100
Umasks == {18, 64}

\* modes an existing directory may have: 0o700 and 0o775
DirModes == {448, 509}

Absent == [kind |-> "absent", mode |-> 0]
RegularFile == [kind |-> "file", mode |-> 420]
Dir(m) == [kind |-> "dir", mode |-> m]
Entries == {Absent, RegularFile} \cup {Dir(m) : m \in DirModes}

----------------------------------------------------------------------------
(* Configuration layers *)

NoKeys == [k \in {} |-> TRUE]

hasattr(layer, k) == k \in DOMAIN layer

setattr(layer, k, v) ==
    [x \in DOMAIN layer \cup {k} |-> IF x = k THEN v ELSE layer[x]]

\* create_default_config
DefaultConfig ==
    [k \in {"Global.reuse_furls", "Global.import_statements", "Global.profile",
            "Global.log_dir_name", "Global.security_dir_name", "Global.log_to_file",
            "Global.cluster_dir"} |->
        CASE k = "Global.reuse_furls" -> FALSE
          [] k = "Global.import_statements" -> <<>>
          [] k = "Global.profile" -> "default"
          [] k = "Global.log_dir_name" -> "log"
          [] k = "Global.security_dir_name" -> "security"
          [] k = "Global.log_to_file" -> FALSE
          [] k = "Global.cluster_dir" -> <<>>]

\* values of --cluster-dir: "", "/abs", "rel", "~/c", "$E"
ClusterDirArgs ==
    {<<>>, <<"/", "abs">>, <<"rel">>, <<"~", "/", "c">>, <<"$E">>}

ProfileArgs == {"default", "work"}

\* the command lines: each of --cluster-dir, -p and -r given or not
CommandLines ==
    {a @@ b @@ c :
        a \in {NoKeys} \cup {"Global.cluster_dir" :> d : d \in ClusterDirArgs},
        b \in {NoKeys} \cup {"Global.profile" :> p : p \in ProfileArgs},
        c \in {NoKeys, "Global.reuse_furls" :> TRUE}}

\* the environments: E undefined, E="" and E="/data"; HOME is always set
Environments ==
    {("HOME" :> <<"/", "home">>) @@ e :
        e \in {NoKeys, "E" :> <<>>, "E" :> <<"/", "data">>}}

----------------------------------------------------------------------------
(* os.path *)

isabs(p) == Len(p) > 0 /\ p[1] = "/"

\* os.path.join(a, b)
join(a, b) ==
    IF isabs(b) THEN b
    ELSE IF a = <<>> \/ a[Len(a)] = "/" THEN a \o b
    ELSE a \o <<"/">> \o b

\* os.path.expanduser: a leading "~" becomes $HOME
expanduser(p, env) ==
    IF Len(p) > 0 /\ p[1] = "~" THEN env["HOME"] \o Tail(p) ELSE p

RECURSIVE expandvars(_, _)
\* os.path.expandvars: $E becomes its value; an undefined variable is left as it is
expandvars(p, env) ==
    IF p = <<>> THEN <<>>
    ELSE (IF Head(p) = "$E" /\ "E" \in DOMAIN env THEN env["E"] ELSE <<Head(p)>>)
         \o expandvars(Tail(p), env)

\* os.getcwd()
getcwd == <<"/", "cwd">>

\* self.ipythondir
ipythondir == <<"/", "home", "/", ".ipython">>

\* what stat may find at path p: what is known of it, or anything when it was never looked at
Stat(f, p, unknown) == IF p \in DOMAIN f THEN {f[p]} ELSE unknown

\* os.path.isdir
isdir(e) == e.kind = "dir"

Call(op, path, mode, ok) == [op |-> op, path |-> path, mode |-> mode, ok |-> ok]

----------------------------------------------------------------------------
(* Start of the application *)

Init ==
    /\ argv \in CommandLines
    /\ environ \in Environments
    /\ umask \in Umasks
    /\ default_config = DefaultConfig
    /\ command_line_config = argv
    /\ file_config = NoKeys
    /\ master_config = NoKeys
    /\ self = NoKeys
    /\ fs = NoKeys
    /\ fs0 = NoKeys
    /\ probed = {}
    /\ syscalls = <<>>
    /\ pc = "find_cluster_dir"
    /\ exc = "none"
    /\ main_service = <<>>
    /\ logging = "none"
    /\ executed = <<>>
    /\ log_msgs = <<>>
    /\ stmt = 1
    /\ started = 0
    /\ reactor_running = FALSE

\* the variables only construct and start_app write
constructVars == <<main_service, logging, executed, log_msgs, stmt, started, reactor_running>>

inputVars == <<argv, environ, umask>>

----------------------------------------------------------------------------
(* Application.start runs the steps in order, each through Application.attempt: *)
(* an exception that leaves a step aborts the start, otherwise the next step    *)
(* runs.                                                                        *)

attempt(raised, next) == IF raised THEN "aborted" ELSE next

----------------------------------------------------------------------------
(* find_config_file_name: find_cluster_dir, then create_cluster_dir *)

\* lines 208-211: the command line's cluster_dir, else the default's
explicit_cluster_dir(cl, dflt) ==
    IF hasattr(cl, "Global.cluster_dir") THEN cl["Global.cluster_dir"]
    ELSE dflt["Global.cluster_dir"]

\* lookup_profile with the command line's profile never read
lookup_profile_default_only(cl, dflt) == dflt["Global.profile"]

\* lines 215-218: the command line's profile, else the default's
lookup_profile(cl, dflt) ==
    IF hasattr(cl, "Global.profile") THEN cl["Global.profile"]
    ELSE dflt["Global.profile"]

\* choose_candidate with the test of the working directory's candidate left out
choose_candidate_ignores_cwd(e, try_this, name) == join(ipythondir, <<name>>)

\* lines 221-224: the candidate under the working directory when it is a directory
choose_candidate(e, try_this, name) ==
    IF isdir(e) THEN try_this ELSE join(ipythondir, <<name>>)

find_cluster_dir ==
    /\ pc = "find_cluster_dir"
    /\ LET cd == expandvars(expanduser(
                     explicit_cluster_dir(command_line_config, default_config),
                     environ), environ)
       IN IF cd # <<>>
          THEN /\ self' = setattr(self, "cluster_dir", cd)
               /\ default_config' = setattr(default_config, "Global.cluster_dir", cd)
               /\ command_line_config' = setattr(command_line_config, "Global.cluster_dir", cd)
               /\ UNCHANGED <<fs, fs0, probed>>
          ELSE LET profile == lookup_profile(command_line_config, default_config)
                   name == "cluster_" \o profile
                   try_this == join(getcwd, <<name>>)
               IN \E e \in Stat(fs, try_this, Entries) :
                    LET dir == choose_candidate(e, try_this, name)
                    IN /\ fs' = setattr(fs, try_this, e)
                       /\ fs0' = setattr(fs0, try_this, e)
                       /\ probed' = probed \cup {try_this}
                       /\ self' = setattr(setattr(self, "profile", profile),
                                          "cluster_dir", dir)
                       /\ default_config' = setattr(default_config, "Global.cluster_dir", dir)
                       /\ command_line_config' =
                              setattr(command_line_config, "Global.cluster_dir", dir)
    /\ pc' = "create_cluster_dir"
    /\ UNCHANGED <<inputVars, file_config, master_config, syscalls, exc, constructVars>>

\* os.makedirs(path, mode) on an entry that is no directory: the outcome when the
\* call succeeds (ok) or raises OSError
makedirs(f, path, mode, u, ok) ==
    IF ok THEN setattr(f, path, Dir(CreateMode(mode, u))) ELSE f

\* whether a creating call on entry e can succeed: never over an existing file
MaySucceed(e) == IF e.kind = "absent" THEN BOOLEAN ELSE {FALSE}

create_cluster_dir ==
    /\ pc = "create_cluster_dir"
    /\ LET path == self["cluster_dir"]
       IN \E e \in Stat(fs, path, Entries) :
            /\ fs0' = setattr(fs0, path, e)
            /\ IF isdir(e)
               THEN /\ fs' = setattr(fs, path, e)
                    /\ pc' = "find_config_file_paths"
                    /\ UNCHANGED <<syscalls, exc>>
               ELSE \E ok \in MaySucceed(e) :
                    /\ fs' = makedirs(setattr(fs, path, e), path, S_IRWXUGO, umask, ok)
                    /\ syscalls' = Append(syscalls, Call("makedirs", path, S_IRWXUGO, ok))
                    /\ exc' = IF ok THEN "none" ELSE "OSError"
                    /\ pc' = attempt(~ok, "find_config_file_paths")
    /\ UNCHANGED <<inputVars, default_config, command_line_config, file_config,
                   master_config, self, probed, constructVars>>

\* line 238
find_config_file_paths ==
    /\ pc = "find_config_file_paths"
    /\ self' = setattr(self, "config_file_paths", <<self["cluster_dir"]>>)
    /\ pc' = "load_file_config"
    /\ UNCHANGED <<inputVars, default_config, command_line_config, file_config,
                   master_config, fs, fs0, probed, syscalls, exc, constructVars>>

----------------------------------------------------------------------------
(* Application.start between find_config_file_paths and pre_construct: the  *)
(* file found under the cluster directory is loaded, and the three layers   *)
(* are merged, the default first and the command line last.                 *)

\* what ipcontroller_config.py may set for the cluster directory and the profile
FilePaths ==
    {a @@ b :
        a \in {NoKeys, "Global.cluster_dir" :> <<"/", "f">>},
        b \in {NoKeys, "Global.profile" :> "work"}}

\* what ipcontroller_config.py may set for the reuse of FURL files
FileReuse ==
    {b @@ c :
        b \in {NoKeys, "FCClientServiceFactory.reuse_furls" :> TRUE},
        c \in {NoKeys, "FCEngineServiceFactory.reuse_furls" :> FALSE}}

FileConfigs == FilePaths \cup FileReuse

load_file_config ==
    /\ pc = "load_file_config"
    /\ file_config' \in FileConfigs
    /\ pc' = "merge_configs"
    /\ UNCHANGED <<inputVars, default_config, command_line_config, master_config, self,
                   fs, fs0, probed, syscalls, exc, constructVars>>

\* Config._merge: the keys of hi over those of lo
merge(lo, hi) ==
    [k \in DOMAIN lo \cup DOMAIN hi |-> IF k \in DOMAIN hi THEN hi[k] ELSE lo[k]]

merge_configs ==
    /\ pc = "merge_configs"
    /\ master_config' = merge(merge(default_config, file_config), command_line_config)
    /\ pc' = "pre_construct"
    /\ UNCHANGED <<inputVars, default_config, command_line_config, file_config, self,
                   fs, fs0, probed, syscalls, exc, constructVars>>

----------------------------------------------------------------------------
(* pre_construct *)

\* a step's outcome: the filesystem after it, the call it made (if any), and
\* whether an exception left it
Outcome(f, calls, raised) == [fs |-> f, calls |-> calls, raised |-> raised]

\* security_step with the OSError of its call caught and dropped
security_step_swallows(f, path, u, e, ok) ==
    IF ~isdir(e)
    THEN Outcome(IF ok THEN setattr(f, path, Dir(CreateMode(S_IRWXU, u))) ELSE f,
                 <<Call("mkdir", path, S_IRWXU, ok)>>, FALSE)
    ELSE Outcome(IF ok THEN setattr(f, path, Dir(S_IRWXU)) ELSE f,
                 <<Call("chmod", path, S_IRWXU, ok)>>, FALSE)

\* lines 247-250: mkdir(security_dir, 0700) when it is no directory, else chmod to 0700;
\* e is what is there, ok whether the call succeeds
security_step(f, path, u, e, ok) ==
    IF ~isdir(e)
    THEN Outcome(IF ok THEN setattr(f, path, Dir(CreateMode(S_IRWXU, u))) ELSE f,
                 <<Call("mkdir", path, S_IRWXU, ok)>>, ~ok)
    ELSE Outcome(IF ok THEN setattr(f, path, Dir(S_IRWXU)) ELSE f,
                 <<Call("chmod", path, S_IRWXU, ok)>>, ~ok)

\* log_step with an existing directory's mode set to 0777, as security_step sets 0700
log_step_chmods(f, path, u, e, ok) ==
    IF ~isdir(e)
    THEN Outcome(IF ok THEN setattr(f, path, Dir(CreateMode(S_IRWXUGO, u))) ELSE f,
                 <<Call("mkdir", path, S_IRWXUGO, ok)>>, ~ok)
    ELSE Outcome(setattr(f, path, Dir(S_IRWXUGO)),
                 <<Call("chmod", path, S_IRWXUGO, TRUE)>>, FALSE)

\* lines 251-252: mkdir(log_dir, 0777) when it is no directory
log_step(f, path, u, e, ok) ==
    IF ~isdir(e)
    THEN Outcome(IF ok THEN setattr(f, path, Dir(CreateMode(S_IRWXUGO, u))) ELSE f,
                 <<Call("mkdir", path, S_IRWXUGO, ok)>>, ~ok)
    ELSE Outcome(f, <<>>, FALSE)

\* lines 257-262: hasattr is called with one argument, which raises TypeError
\* before either factory's reuse_furls is assigned
setup_reuse_furls(mc) == [config |-> mc, exc |-> "TypeError"]

\* whether the call of a step on entry e can succeed: mkdir never over a file,
\* and a step that makes no call cannot fail
Succeeds(e, changes) ==
    IF ~changes THEN {TRUE} ELSE IF e.kind = "file" THEN {FALSE} ELSE BOOLEAN

\* what may be under the cluster directory: nothing when it was created just now
Under(parent) == IF isdir(fs0[parent]) THEN Entries ELSE {Absent}

pre_construct ==
    /\ pc = "pre_construct"
    /\ LET cluster_dir == master_config["Global.cluster_dir"]
           security_dir == join(cluster_dir, <<master_config["Global.security_dir_name"]>>)
           log_dir == join(cluster_dir, <<master_config["Global.log_dir_name"]>>)
       IN \E es \in Stat(fs, security_dir, Under(cluster_dir)), oks \in BOOLEAN :
            /\ oks \in Succeeds(es, TRUE)
            /\ LET r1 == security_step(setattr(fs, security_dir, es), security_dir,
                                       umask, es, oks)
               IN IF r1.raised
                  THEN /\ fs' = r1.fs
                       /\ fs0' = setattr(fs0, security_dir, es)
                       /\ syscalls' = syscalls \o r1.calls
                       /\ exc' = "OSError"
                       /\ UNCHANGED <<self, master_config>>
                  ELSE \E el \in Stat(r1.fs, log_dir, Under(cluster_dir)), okl \in BOOLEAN :
                       /\ okl \in Succeeds(el, ~isdir(el))
                       /\ LET r2 == log_step(setattr(r1.fs, log_dir, el), log_dir,
                                             umask, el, okl)
                          IN /\ fs' = r2.fs
                             /\ fs0' = setattr(setattr(fs0, security_dir, es), log_dir, el)
                             /\ syscalls' = syscalls \o r1.calls \o r2.calls
                             /\ IF r2.raised
                                THEN /\ exc' = "OSError"
                                     /\ UNCHANGED <<self, master_config>>
                                ELSE LET mc == setattr(setattr(master_config,
                                                   "Global.security_dir", security_dir),
                                                   "Global.log_dir", log_dir)
                                         r3 == setup_reuse_furls(mc)
                                     IN /\ self' = setattr(setattr(self,
                                                       "security_dir", security_dir),
                                                       "log_dir", log_dir)
                                        /\ master_config' = r3.config
                                        /\ exc' = r3.exc
    /\ pc' = attempt(exc' # "none", "construct")
    /\ UNCHANGED <<inputVars, default_config, command_line_config, file_config, probed,
                   constructVars>>

----------------------------------------------------------------------------
(* construct and start_app.  Under Spec no run of Application.start gets   *)
(* to construct, because pre_construct always ends in the TypeError of      *)
(* setup_reuse_furls; the two methods are modelled as called on an          *)
(* application in the state the directory step of pre_construct leaves:     *)
(* the cluster, security and log directories exist, and master_config      *)
(* holds the merged layers with Global.security_dir and Global.log_dir.     *)

\* a setup statement is what exec does with it: it passes or it raises
StatementLists ==
    UNION {[1..n -> {"pass", "raise"}] : n \in 0..MaxStatements}

ProvisionedDir == <<"/", "abs">>

InitConstruct ==
    /\ argv = ("Global.cluster_dir" :> ProvisionedDir)
    /\ environ \in Environments
    /\ umask \in Umasks
    /\ default_config = setattr(DefaultConfig, "Global.cluster_dir", ProvisionedDir)
    /\ command_line_config = argv
    /\ \E statements \in StatementLists, log_to_file \in BOOLEAN :
         /\ file_config = ("Global.import_statements" :> statements)
                          @@ ("Global.log_to_file" :> log_to_file)
         /\ master_config =
              ("Global.security_dir" :> join(ProvisionedDir, <<"security">>))
              @@ ("Global.log_dir" :> join(ProvisionedDir, <<"log">>))
              @@ merge(merge(default_config, file_config), command_line_config)
    /\ self = ("cluster_dir" :> ProvisionedDir)
              @@ ("config_file_paths" :> <<ProvisionedDir>>)
              @@ ("security_dir" :> join(ProvisionedDir, <<"security">>))
              @@ ("log_dir" :> join(ProvisionedDir, <<"log">>))
    /\ fs = (ProvisionedDir :> Dir(S_IRWXUGO))
            @@ (join(ProvisionedDir, <<"security">>) :> Dir(S_IRWXU))
            @@ (join(ProvisionedDir, <<"log">>) :> Dir(S_IRWXUGO))
    /\ fs0 = fs
    /\ probed = {}
    /\ syscalls = <<>>
    /\ pc = "start_logging"
    /\ exc = "none"
    /\ main_service = <<>>
    /\ logging = "none"
    /\ executed = <<>>
    /\ log_msgs = <<>>
    /\ stmt = 1
    /\ started = 0
    /\ reactor_running = FALSE

provisionVars == <<inputVars, default_config, command_line_config, file_config,
                   master_config, self, fs0, probed>>

\* lines 286-293: open the log file under log_dir, or use sys.stdout; ok is
\* whether open succeeds
start_logging ==
    /\ pc = "start_logging"
    /\ IF master_config["Global.log_to_file"]
       THEN LET logfile == join(self["log_dir"], <<"ipcontroller-pid.log">>)
            IN \E ok \in BOOLEAN :
                 /\ syscalls' = Append(syscalls, Call("open", logfile, 0, ok))
                 /\ fs' = IF ok THEN setattr(fs, logfile, RegularFile) ELSE fs
                 /\ logging' = IF ok THEN "file" ELSE logging
                 /\ exc' = IF ok THEN "none" ELSE "IOError"
       ELSE /\ logging' = "stdout"
            /\ UNCHANGED <<syscalls, fs, exc>>
    /\ pc' = attempt(exc' # "none", "import_statements")
    /\ UNCHANGED <<provisionVars, main_service, executed, log_msgs, stmt, started,
                   reactor_running>>

\* exec_statement without the try/except: the statement's exception leaves the loop
exec_statement_uncaught(s) == [logged |-> FALSE, propagates |-> s = "raise"]

\* lines 298-301: exec s inside try, with a bare except that logs
exec_statement(s) == [logged |-> s = "raise", propagates |-> FALSE]

\* one turn of the for loop of import_statements
import_statements ==
    /\ pc = "import_statements"
    /\ LET statements == master_config["Global.import_statements"]
       IN /\ stmt <= Len(statements)
          /\ LET r == exec_statement(statements[stmt])
             IN /\ executed' = Append(executed, stmt)
                /\ log_msgs' = IF r.logged THEN Append(log_msgs, stmt) ELSE log_msgs
                /\ exc' = IF r.propagates THEN "Exception" ELSE "none"
                /\ stmt' = stmt + 1
                /\ pc' = attempt(r.propagates, "import_statements")
    /\ UNCHANGED <<provisionVars, fs, syscalls, main_service, logging, started,
                   reactor_running>>

\* construct_order with the client listener created first
construct_order_client_first == <<"client_service", "controller_service", "engine_service">>

\* lines 272-284: the order in which construct creates the services
construct_order == <<"controller_service", "client_service", "engine_service">>

\* service.setServiceParent(parent)
setServiceParent(service, parent) == Append(parent, service)

\* whether creating a service can raise: a factory's create() can, on its configuration
MayRaise(service) == IF service = "controller_service" THEN {FALSE} ELSE BOOLEAN

\* lines 272-284, one service at a time, once the for loop of import_statements is over
create_service ==
    /\ pc = "import_statements"
    /\ stmt > Len(master_config["Global.import_statements"])
    /\ Len(main_service) < Len(construct_order)
    /\ LET service == construct_order[Len(main_service) + 1]
       IN \E raises \in MayRaise(service) :
            /\ main_service' = IF raises THEN main_service
                               ELSE setServiceParent(service, main_service)
            /\ exc' = IF raises THEN "ConfigurationError" ELSE "none"
            /\ pc' = attempt(raises, IF Len(main_service') = Len(construct_order)
                                     THEN "start_app" ELSE pc)
    /\ UNCHANGED <<provisionVars, fs, syscalls, logging, executed, log_msgs, stmt,
                   started, reactor_running>>

\* lines 303-306: reactor.run() does not return
start_app ==
    /\ pc = "start_app"
    /\ started' = started + 1
    /\ reactor_running' = TRUE
    /\ pc' = "reactor.run"
    /\ UNCHANGED <<provisionVars, fs, syscalls, exc, main_service, logging, executed,
                   log_msgs, stmt>>

NextConstruct ==
    \/ start_logging
    \/ import_statements
    \/ create_service
    \/ start_app

SpecConstruct == InitConstruct /\ [][NextConstruct]_vars

Next ==
    \/ find_cluster_dir
    \/ create_cluster_dir
    \/ find_config_file_paths
    \/ load_file_config
    \/ merge_configs
    \/ pre_construct

Spec == Init /\ [][Next]_vars

----------------------------------------------------------------------------
(* Properties of the resolution of the cluster directory *)

CD == "Global.cluster_dir"

Resolved == hasattr(self, "cluster_dir")

\* the --cluster-dir the command line gave, "" when it gave none
GivenClusterDir == IF hasattr(argv, CD) THEN argv[CD] ELSE <<>>

\* the profile the command line gave, else "default"
GivenProfile == IF hasattr(argv, "Global.profile") THEN argv["Global.profile"] ELSE "default"

Expanded(p) == expandvars(expanduser(p, environ), environ)

CwdCandidate(profile) == join(getcwd, <<"cluster_" \o profile>>)

AppDataCandidate(profile) == join(ipythondir, <<"cluster_" \o profile>>)

WasDir(p) == p \in DOMAIN fs0 /\ isdir(fs0[p])

MakedirsFailed == \E i \in DOMAIN syscalls : syscalls[i].op = "makedirs" /\ ~syscalls[i].ok

\* create_cluster_dir has returned
ClusterDirCreated == Resolved /\ pc # "create_cluster_dir" /\ ~MakedirsFailed

\* the profile-based resolution: ./cluster_<profile> when it is a directory, else the
\* candidate under the application-data root, created by create_cluster_dir
ProfileResolution(profile) ==
    /\ self["cluster_dir"] = IF WasDir(CwdCandidate(profile))
                             THEN CwdCandidate(profile)
                             ELSE AppDataCandidate(profile)
    /\ ClusterDirCreated => isdir(fs[self["cluster_dir"]])
    /\ ClusterDirCreated /\ ~WasDir(self["cluster_dir"]) =>
          \E i \in DOMAIN syscalls :
              syscalls[i] = Call("makedirs", self["cluster_dir"], S_IRWXUGO, TRUE)

ProfileNotConsulted == ~hasattr(self, "profile") /\ probed = {}

\* C1 as stated: a non-empty --cluster-dir resolves to its expansion and the profile
\* and both candidates are never consulted; otherwise <cwd>/cluster_<profile> when it
\* is a directory; otherwise <application-data-root>/cluster_<profile>, which
\* create_cluster_dir creates.
C1_NonEmptySettingNeverConsultsProfile ==
    Resolved =>
        IF GivenClusterDir # <<>>
        THEN self["cluster_dir"] = Expanded(GivenClusterDir) /\ ProfileNotConsulted
        ELSE ProfileResolution(GivenProfile)

\* C1, amended: the cluster directory is the expansion of --cluster-dir when that
\* expansion is non-empty, and then the profile and both candidates are never
\* consulted; otherwise (no --cluster-dir, an empty one, or one that expands to the
\* empty string) it is <cwd>/cluster_<profile> when that is a directory, and otherwise
\* <application-data-root>/cluster_<profile>, which create_cluster_dir creates when it
\* returns.
C1_FindClusterDir ==
    Resolved =>
        IF Expanded(GivenClusterDir) # <<>>
        THEN /\ self["cluster_dir"] = Expanded(GivenClusterDir)
             /\ ProfileNotConsulted
             /\ ClusterDirCreated => isdir(fs[self["cluster_dir"]])
        ELSE ProfileResolution(GivenProfile)

\* the working directory holds cluster_work, and find_cluster_dir chose it
C1_Witness ==
    /\ Resolved
    /\ GivenProfile = "work"
    /\ WasDir(CwdCandidate("work"))
    /\ self["cluster_dir"] = CwdCandidate("work")

\* C2: after find_cluster_dir, Global.cluster_dir of the default layer and of the
\* command-line layer are the same value, and that value is an absolute path.
C2_SameAbsolutePathInBothLayers ==
    Resolved =>
        /\ default_config[CD] = command_line_config[CD]
        /\ isabs(command_line_config[CD])

----------------------------------------------------------------------------
(* Properties of the configuration layers *)

Merged == master_config # NoKeys

\* the value of key k under the precedence command line > file > default
ByThreeLayers(k) ==
    IF hasattr(argv, k) THEN argv[k]
    ELSE IF hasattr(file_config, k) THEN file_config[k]
    ELSE DefaultConfig[k]

\* the value of key k under the precedence command line > default
ByTwoLayers(k) == IF hasattr(argv, k) THEN argv[k] ELSE DefaultConfig[k]

\* the directories a cluster_dir setting and a profile can resolve to
ResolutionsOf(cluster_dir, profile) ==
    IF Expanded(cluster_dir) # <<>> THEN {Expanded(cluster_dir)}
    ELSE {CwdCandidate(profile), AppDataCandidate(profile)}

\* C5 as stated: the cluster directory is resolved from the values of
\* Global.cluster_dir and Global.profile under command line > file > default.
C5_FileLayerWinsOverDefault ==
    Merged =>
        self["cluster_dir"] \in ResolutionsOf(ByThreeLayers(CD),
                                              ByThreeLayers("Global.profile"))

\* C5, amended: the cluster directory is resolved from the values of
\* Global.cluster_dir and Global.profile under command line > default; the file layer
\* is read only after the resolution and its values of the two keys do not change the
\* resolved directory, which is also the merged Global.cluster_dir.
C5_CommandLineWinsOverDefault ==
    /\ Resolved =>
          self["cluster_dir"] \in ResolutionsOf(ByTwoLayers(CD),
                                                ByTwoLayers("Global.profile"))
    /\ Merged => master_config[CD] = self["cluster_dir"]

\* the command line names a profile, the file another cluster directory, and the
\* profile's directory is the one resolved
C5_Witness ==
    /\ Merged
    /\ ~hasattr(argv, CD)
    /\ hasattr(argv, "Global.profile") /\ argv["Global.profile"] = "work"
    /\ hasattr(file_config, CD)
    /\ self["cluster_dir"] = AppDataCandidate("work")

----------------------------------------------------------------------------
(* Properties of pre_construct *)

\* the directory step of pre_construct (lines 243-255) has completed
Provisioned == hasattr(self, "security_dir") /\ hasattr(self, "log_dir")

SecurityDir == join(master_config[CD], <<master_config["Global.security_dir_name"]>>)

LogDir == join(master_config[CD], <<master_config["Global.log_dir_name"]>>)

CallsOn(p) == {i \in DOMAIN syscalls : syscalls[i].path = p}

FsFailed == \E i \in DOMAIN syscalls : ~syscalls[i].ok

\* no bit of group or other: mode & 0o077 = 0
OwnerOnly(mode) == mode % 64 = 0

\* C3: after the directory step of pre_construct, the security directory's mode is
\* exactly 0700, whether it existed before or was created by this start, under any
\* umask.
C3_SecurityDirIsExactly0700 ==
    Provisioned => fs[self["security_dir"]] = Dir(S_IRWXU)

\* C4: no service is created or started and the reactor is not entered unless the
\* cluster, security (owner-only) and log directories were provisioned before; when a
\* directory creation or permission change fails, the start halts there: the failed
\* call is the last one made, its OSError is what aborted the start, and no service
\* exists or runs.
C4_NoListenerBeforeProvisioning ==
    /\ (main_service # <<>> \/ started > 0 \/ reactor_running \/ pc = "construct") =>
          /\ Provisioned
          /\ isdir(fs[self["cluster_dir"]])
          /\ isdir(fs[self["security_dir"]])
          /\ OwnerOnly(fs[self["security_dir"]].mode)
          /\ isdir(fs[self["log_dir"]])
    /\ \A i \in DOMAIN syscalls :
          ~syscalls[i].ok =>
              /\ i = Len(syscalls)
              /\ pc = "aborted"
              /\ exc = "OSError"
              /\ ~Provisioned
              /\ main_service = <<>> /\ started = 0 /\ ~reactor_running

\* the chmod of an existing security directory failed, and the start was aborted
\* before the log directory was looked at
C4_Witness ==
    /\ Merged
    /\ pc = "aborted"
    /\ exc = "OSError"
    /\ syscalls # <<>>
    /\ syscalls[Len(syscalls)] = Call("chmod", SecurityDir, S_IRWXU, FALSE)
    /\ LogDir \notin DOMAIN fs
    /\ main_service = <<>>

\* the reuse policy the file gives a binding, if any, else the global toggle
InheritedReuse(key) ==
    IF hasattr(file_config, key) THEN file_config[key]
    ELSE master_config["Global.reuse_furls"]

\* C6: after provisioning, each binding's reuse_furls is the global
\* Global.reuse_furls when the binding's own is unset and the binding's own value
\* when it is set, the client's and the engine's each on its own.
C6_ReuseFurlsInherited ==
    Provisioned =>
        \A key \in {"FCClientServiceFactory.reuse_furls",
                    "FCEngineServiceFactory.reuse_furls"} :
            /\ hasattr(master_config, key)
            /\ master_config[key] = InheritedReuse(key)

\* C8: when every filesystem call succeeds, the start-up sequence does not halt
\* before the service group is started and the reactor entered.
C8_StartupReachesTheReactor ==
    (pc = "aborted" /\ ~FsFailed) => (started = 1 /\ reactor_running)

\* C10: an existing log directory is left as it was, with no call made on it; the
\* log directory is created, by mkdir with mode 0777, only when it is absent.
C10_ExistingLogDirUntouched ==
    (Merged /\ LogDir \in DOMAIN fs0) =>
        /\ WasDir(LogDir) => (fs[LogDir] = fs0[LogDir] /\ CallsOn(LogDir) = {})
        /\ \A i \in CallsOn(LogDir) :
              /\ syscalls[i].op = "mkdir"
              /\ syscalls[i].mode = S_IRWXUGO
              /\ fs0[LogDir] = Absent \/ ~syscalls[i].ok
        /\ (Provisioned /\ ~WasDir(LogDir)) =>
              /\ CallsOn(LogDir) # {}
              /\ fs[LogDir] = Dir(CreateMode(S_IRWXUGO, umask))

\* a log directory of mode 0775 existed, and the directory step has completed
C10_Witness ==
    /\ Provisioned
    /\ fs0[self["log_dir"]] = Dir(509)
    /\ fs[self["log_dir"]] = Dir(509)

----------------------------------------------------------------------------
(* Properties of construct *)

Statements == master_config["Global.import_statements"]

\* the for loop of import_statements is over
LoopOver == stmt > Len(Statements)

\* C7: import_statements calls exec on every statement once, in list order; a
\* statement that raises is logged and the loop goes on with the next one; no
\* statement's exception leaves the loop or aborts the start, and once the loop is
\* over the creation of the services follows.
C7_EveryStatementAttempted ==
    LET Raises(k) == Statements[k] = "raise"
    IN /\ executed = [k \in 1..(stmt - 1) |-> k]
       /\ stmt <= Len(Statements) + 1
       /\ log_msgs = SelectSeq(executed, Raises)
       /\ exc # "Exception"
       /\ (main_service # <<>> \/ pc \in {"start_app", "reactor.run"}) => LoopOver
       /\ (pc = "import_statements" /\ LoopOver) => ENABLED create_service
       /\ pc = "aborted" => exc \in {"IOError", "ConfigurationError"}

\* a statement raised, a later one passed, both were attempted, and the services
\* were created
C7_Witness ==
    /\ \E j, k \in DOMAIN Statements :
          /\ j < k
          /\ Statements[j] = "raise"
          /\ Statements[k] = "pass"
          /\ k \in {executed[n] : n \in DOMAIN executed}
          /\ j \in {log_msgs[n] : n \in DOMAIN log_msgs}
    /\ Len(main_service) = 3

Members(name) == {i \in DOMAIN main_service : main_service[i] = name}

\* C9: the one controller service is in self.main_service before the client
\* listener and before the engine listener are created and added: it precedes both
\* in the group's member order.
C9_BackendBeforeListeners ==
    /\ Cardinality(Members("controller_service")) <= 1
    /\ \A i \in Members("client_service") \cup Members("engine_service") :
          \E j \in Members("controller_service") : j < i

\* all three services are in the group
C9_Witness ==
    /\ Members("controller_service") = {1}
    /\ Members("client_service") # {}
    /\ Members("engine_service") # {}
====
